---- MODULE Spec2Model ----
(***************************************************************************)
(* Model of the telegrambot package (src/bot.go, src/types.go).            *)
(*                                                                         *)
(* Spec     : several host threads calling AddCommand, HandleUpdate and    *)
(*            HandleDocument on one shared Bot (mutex, command table,      *)
(*            handler invocations and outbound HTTP requests).             *)
(* SpecApi  : one host thread calling the API operations SendMessage,      *)
(*            GetUpdates, GetFileURL, SendFile and CountLinesInFile against *)
(*            every HTTP outcome of the remote side.                       *)
(* SpecPoll : the host's poll loop (GetUpdates, then HandleUpdate for each  *)
(*            update, advancing the offset cursor).                        *)
(* SpecTable: one thread registering and dispatching command texts that    *)
(*            differ only in case.                                         *)
(* SpecLines: CountLinesInFile over every body up to MaxLine bytes.         *)
(* SpecDeadline: the requests of the API operations and the deadline of    *)
(*            the HTTP client each is issued with.                         *)
(* SpecFair : AddCommand and HandleUpdate under a fair scheduler.          *)
(* SpecReentrant: handlers that call AddCommand or HandleUpdate on the     *)
(*            Bot that is dispatching them.                                *)
(***************************************************************************)
EXTENDS Integers, Sequences, FiniteSets, TLC

\* ------------------------------------------------------------------ bounds
NumThreads == 2
MaxBody == 2
BufSize == 3

MaxLine == 6
MaxUpdates == 3

\* ------------------------------------------------------- values and inputs
Procs == 1..NumThreads

Token == "TOKEN"

Texts == {"/ping", "/other"}
Chats == {42, -7}
FileIDs == {"", "F"}
Paths == {"", "x.txt"}

\* A handler is an opaque func(chatID int64) string: "hEmpty" returns the
\* empty string, "hPong" returns "pong".
Handlers == {"hEmpty", "hPong"}

Reply(h, chat) == IF h = "hEmpty" THEN "" ELSE "pong"

\* An error value, by what a caller can observe of it: its dynamic type and
\* its Error() text (a sequence of the pieces the text is built from).
\* errors.New(text) and fmt.Errorf(text) without a wrapped operand both
\* give an *errors.errorString.
Nil == [type |-> "nil", msg |-> <<>>]
ErrorsNew(text) == [type |-> "*errors.errorString", msg |-> <<text>>]
Errorf(text, operand) == [type |-> "*errors.errorString", msg |-> <<text, operand>>]

\* The errors of the collaborators, passed through unchanged by the package:
\* http.Client (PostForm, Do, Get) fails with a *url.Error, the json decoder
\* with a *json.SyntaxError, a broken body stream with a *net.OpError.
ErrTransport == [type |-> "*url.Error", msg |-> <<"round trip failed">>]
ErrDecode == [type |-> "*json.SyntaxError", msg |-> <<"invalid character">>]
ErrBodyRead == [type |-> "*net.OpError", msg |-> <<"read: connection reset">>]

StatusOK == 200
Statuses == {200, 204, 500}

\* resp.Status, the status line text of a response.
StatusText(s) == IF s = 200 THEN "200 OK"
                 ELSE IF s = 204 THEN "204 No Content"
                 ELSE "500 Internal Server Error"

\* fmt.Sprintf("%d", n): the decimal digits of n, with a leading "-".
Digit(d) == <<"0", "1", "2", "3", "4", "5", "6", "7", "8", "9">>[d + 1]

RECURSIVE NatDigits(_)
NatDigits(n) == IF n < 10 THEN <<Digit(n)>>
                ELSE Append(NatDigits(n \div 10), Digit(n % 10))

FormatInt(n) == IF n < 0 THEN <<"-">> \o NatDigits(0 - n) ELSE NatDigits(n)

\* fmt.Sprintf("https://api.telegram.org/bot%s/<method>", b.Token)
ApiURL(method) == <<"https://api.telegram.org/bot", Token, "/", method>>

\* fmt.Sprintf("https://api.telegram.org/file/bot%s/%s", b.Token, filePath)
FileURL(filePath) == <<"https://api.telegram.org/file/bot", Token, "/", filePath>>

\* ------------------------------------------------------ the wire model
\* Update of types.go, with the fields the package reads.
MkUpdate(id, text, chat, fileID) ==
    [update_id |-> id, text |-> text, chat |-> chat, file_id |-> fileID]

Batches == {<<>>, <<MkUpdate(10, "/ping", 42, ""), MkUpdate(11, "/other", -7, "")>>}

\* What the remote side answers to one request: a transport failure (net),
\* or a status and a body. json = the body decodes into the response type,
\* and then ok and result are the envelope's fields (a missing field is its
\* zero value).
NetErr(zero) == [net |-> TRUE, status |-> 0, json |-> FALSE, ok |-> FALSE, result |-> zero]

Resps(results, zero) ==
    {NetErr(zero)} \cup
    {r \in [net : {FALSE}, status : Statuses, json : BOOLEAN, ok : BOOLEAN,
            result : results] : ~r.json => (~r.ok /\ r.result = zero)}

PlainResps == Resps({""}, "")
UpdateResps == Resps(Batches, <<>>)
FileResps == Resps(Paths, "")

\* The getFile responses served to HandleDocument under Spec.
DocFileResps == Resps({"x.txt"}, "")

\* json.NewDecoder(resp.Body).Decode(&response) into UpdateResponse or
\* FileResponse: an error for a body that is no JSON document, else the
\* envelope's Ok and Result.
Decode(resp, zero) ==
    IF resp.json THEN [err |-> Nil, Ok |-> resp.ok, Result |-> resp.result]
    ELSE [err |-> ErrDecode, Ok |-> FALSE, Result |-> zero]

\* ------------------------------------------------------ API operations
\* Each operator gives the operation's return values for the response
\* `resp` of the one request it issues.

\* Bot.SendMessage: the body is never read.
SendMessage(resp) ==
    IF resp.net THEN ErrTransport
    ELSE IF resp.status # StatusOK THEN ErrorsNew("failed to send message")
    ELSE Nil

\* GetUpdates returning the result array without its last element.
GetUpdates_DropLast(resp) ==
    IF resp.net THEN [val |-> <<>>, err |-> ErrTransport]
    ELSE IF ~resp.json THEN [val |-> <<>>, err |-> ErrDecode]
    ELSE IF ~resp.ok THEN [val |-> <<>>, err |-> ErrorsNew("failed to get updates")]
    ELSE [val |-> SubSeq(resp.result, 1, Len(resp.result) - 1), err |-> Nil]

\* Bot.GetUpdates: the status code is never read.
GetUpdates(resp) ==
    IF resp.net THEN [val |-> <<>>, err |-> ErrTransport]
    ELSE LET response == Decode(resp, <<>>) IN
         IF response.err # Nil THEN [val |-> <<>>, err |-> response.err]
         ELSE IF ~response.Ok THEN [val |-> <<>>, err |-> ErrorsNew("failed to get updates")]
         ELSE [val |-> response.Result, err |-> Nil]

\* GetFileURL without the check of the envelope's ok.
GetFileURL_NoOkCheck(resp) ==
    IF resp.net THEN [val |-> <<>>, err |-> ErrTransport]
    ELSE IF resp.status # 200
         THEN [val |-> <<>>, err |-> ErrorsNew("failed to get file URL")]
    ELSE IF ~resp.json THEN [val |-> <<>>, err |-> ErrDecode]
    ELSE [val |-> <<"https://api.telegram.org/file/bot", Token, "/", resp.result>>,
          err |-> Nil]

\* Bot.GetFileURL; the empty string is the empty sequence of URL pieces.
GetFileURL(resp) ==
    IF resp.net THEN [val |-> <<>>, err |-> ErrTransport]
    ELSE IF resp.status # StatusOK
         THEN [val |-> <<>>, err |-> ErrorsNew("failed to get file URL")]
    ELSE LET fileResponse == Decode(resp, "") IN
         IF fileResponse.err # Nil THEN [val |-> <<>>, err |-> fileResponse.err]
         ELSE IF ~fileResponse.Ok
              THEN [val |-> <<>>, err |-> ErrorsNew("failed to get file URL")]
         ELSE [val |-> FileURL(fileResponse.Result), err |-> Nil]

\* SendFile closing the file as its last statement, not by a defer.
SendFile_CloseAtEnd(failAt, resp) ==
    IF failAt = "open"
    THEN [err |-> [type |-> "*errors.errorString",
                   msg |-> <<"could not open file: ", "open error">>],
          sent |-> FALSE, handle |-> "none"]
    ELSE IF failAt # "none"
    THEN [err |-> [type |-> "*errors.errorString",
                   msg |-> <<"could not build request: ", failAt>>],
          sent |-> FALSE, handle |-> "open"]
    ELSE IF resp.net
    THEN [err |-> [type |-> "*errors.errorString",
                   msg |-> <<"could not send request: ", "round trip failed">>],
          sent |-> TRUE, handle |-> "open"]
    ELSE IF resp.status # 200
    THEN [err |-> [type |-> "*errors.errorString",
                   msg |-> <<"failed to send file: ", "status">>],
          sent |-> TRUE, handle |-> "open"]
    ELSE [err |-> [type |-> "nil", msg |-> <<>>], sent |-> TRUE, handle |-> "closed"]

\* The local steps of SendFile that can fail: os.Open, CreateFormFile,
\* io.Copy, writer.Close, http.NewRequest; "none" when all of them succeed.
LocalFailures == {"none", "open", "create", "copy", "close", "request"}

\* Bot.SendFile when its local step failAt fails: the error, whether the
\* request was issued, and the state of the file handle at return ("none":
\* never opened; "closed": opened, and closed by the deferred file.Close).
SendFile(failAt, resp) ==
    IF failAt = "open"
    THEN [err |-> Errorf("could not open file: ", "open error"),
          sent |-> FALSE, handle |-> "none"]
    ELSE IF failAt = "create"
    THEN [err |-> Errorf("could not create form file: ", "write error"),
          sent |-> FALSE, handle |-> "closed"]
    ELSE IF failAt = "copy"
    THEN [err |-> Errorf("could not copy file content: ", "read error"),
          sent |-> FALSE, handle |-> "closed"]
    ELSE IF failAt = "close"
    THEN [err |-> Errorf("could not close writer: ", "write error"),
          sent |-> FALSE, handle |-> "closed"]
    ELSE IF failAt = "request"
    THEN [err |-> Errorf("could not create request: ", "url error"),
          sent |-> FALSE, handle |-> "closed"]
    ELSE IF resp.net
    THEN [err |-> Errorf("could not send request: ", "round trip failed"),
          sent |-> TRUE, handle |-> "closed"]
    ELSE IF resp.status # StatusOK
    THEN [err |-> Errorf("failed to send file: ", StatusText(resp.status)),
          sent |-> TRUE, handle |-> "closed"]
    ELSE [err |-> Nil, sent |-> TRUE, handle |-> "closed"]

\* ------------------------------------------------------ the line counter
\* The bytes of a downloaded body: line feed, carriage return, any other.
Bytes == {"LF", "CR", "a"}

RECURSIVE SeqsUpTo(_, _)
SeqsUpTo(S, n) ==
    IF n = 0 THEN {<<>>}
    ELSE LET shorter == SeqsUpTo(S, n - 1) IN
         shorter \cup {Append(q, x) : q \in {t \in shorter : Len(t) = n - 1}, x \in S}

Bodies == SeqsUpTo(Bytes, MaxBody)

\* The body served to HandleDocument under Spec: "a\nbb".
SampleBodies == {<<"a", "LF", "a", "a">>}

\* What the remote side answers to the download GET: as above, with the
\* body's bytes, how the body stream ends (end = "EOF", or "err" for a
\* connection that breaks after the bytes) and whether the end is reported
\* together with the last bytes read (eager) or by a read of its own.
NetErrDownload ==
    [net |-> TRUE, status |-> 0, bytes |-> <<>>, end |-> "EOF", eager |-> FALSE]

DownloadRespsOf(bodies) ==
    {NetErrDownload} \cup
    [net : {FALSE}, status : Statuses, bytes : bodies, end : {"EOF", "err"},
     eager : BOOLEAN]

DownloadResps == DownloadRespsOf(Bodies)

\* The download responses served to HandleDocument under Spec.
DocDownloadResps == DownloadRespsOf(SampleBodies)

\* bufio.NewReader(resp.Body): buf = the bytes buffered and not yet read,
\* rest = the bytes still in the stream, pend = the reader's pending error.
NewReader(resp) ==
    [buf |-> <<>>, rest |-> resp.bytes, pend |-> "none", end |-> resp.end,
     eager |-> resp.eager]

Min(a, b) == IF a < b THEN a ELSE b

\* bufio.Reader.fill: one read of the stream into the free part of the buffer.
Fill(r) ==
    IF r.rest = <<>> THEN [r EXCEPT !.pend = r.end]
    ELSE LET n == Min(BufSize - Len(r.buf), Len(r.rest))
             left == SubSeq(r.rest, n + 1, Len(r.rest)) IN
         [r EXCEPT !.buf = r.buf \o SubSeq(r.rest, 1, n),
                   !.rest = left,
                   !.pend = IF left = <<>> /\ r.eager THEN r.end ELSE "none"]

IndexOfLF(q) ==
    IF \E i \in 1..Len(q) : q[i] = "LF"
    THEN CHOOSE i \in 1..Len(q) : q[i] = "LF" /\ \A j \in 1..(i - 1) : q[j] # "LF"
    ELSE 0

\* bufio.Reader.ReadSlice('\n'): up to and including the next LF; else the
\* buffered bytes with the pending error; else a full buffer ("full").
RECURSIVE ReadSlice(_)
ReadSlice(r) ==
    LET i == IndexOfLF(r.buf) IN
    IF i > 0
    THEN [line |-> SubSeq(r.buf, 1, i), err |-> "nil",
          r |-> [r EXCEPT !.buf = SubSeq(r.buf, i + 1, Len(r.buf))]]
    ELSE IF r.pend # "none"
    THEN [line |-> r.buf, err |-> r.pend,
          r |-> [r EXCEPT !.buf = <<>>, !.pend = "none"]]
    ELSE IF Len(r.buf) >= BufSize
    THEN [line |-> r.buf, err |-> "full", r |-> [r EXCEPT !.buf = <<>>]]
    ELSE ReadSlice(Fill(r))

\* bufio.Reader.ReadLine: isPrefix for a full buffer without LF (a CR that
\* ends it is put back), the error only when no byte was read.
ReadLine(r) ==
    LET s == ReadSlice(r) IN
    IF s.err = "full"
    THEN [isPrefix |-> TRUE, err |-> "nil",
          r |-> IF Len(s.line) > 0 /\ s.line[Len(s.line)] = "CR"
                THEN [s.r EXCEPT !.buf = <<"CR">>] ELSE s.r]
    ELSE IF Len(s.line) = 0 THEN [isPrefix |-> FALSE, err |-> s.err, r |-> s.r]
    ELSE [isPrefix |-> FALSE, err |-> "nil", r |-> s.r]

\* The loop of CountLinesInFile.
RECURSIVE CountLoop(_, _)
CountLoop(r, lineCount) ==
    LET x == ReadLine(r) IN
    IF x.err = "EOF" THEN [val |-> lineCount, err |-> Nil]
    ELSE IF x.err # "nil" THEN [val |-> 0, err |-> ErrBodyRead]
    ELSE CountLoop(x.r, IF ~x.isPrefix THEN lineCount + 1 ELSE lineCount)

\* Bot.CountLinesInFile for the response to its http.Get.
CountLinesInFile(resp) ==
    IF resp.net THEN [val |-> 0, err |-> ErrTransport]
    ELSE IF resp.status # StatusOK
         THEN [val |-> 0, err |-> ErrorsNew("failed to download file")]
    ELSE CountLoop(NewReader(resp), 0)

\* ------------------------------------------------------------- the state
VARIABLES
    commands,   \* Bot.commands: command text -> handler
    mu,         \* Bot.mu: TRUE when locked
    pc,         \* per thread: where it is in the call it is executing
    arg,        \* per thread: the arguments of the call it is executing
    local,      \* per thread: the local variables of that call, its result
                \* values (val, err: unset until it executes a return), and
                \* the handler invocations and HTTP requests it has made
    registered, \* history: per command text, the handler of the latest
                \* AddCommand that has written the table
    api,        \* SpecApi: the last API call, its response and its result
    host        \* SpecPoll: the host's poll loop (its position, cursor and
                \* batch, and the update ids HandleUpdate has returned for)

vars == <<commands, mu, pc, arg, local, registered, api, host>>

NoArg == [op |-> "none", update |-> MkUpdate(0, "", 0, ""),
          command |-> "", handler |-> ""]

\* The error result of a call that has not executed a return statement yet.
Unset == [type |-> "unset", msg |-> <<>>]

NoLocal == [handler |-> "", exists |-> FALSE, response |-> "", sendErr |-> Nil,
            fileURL |-> <<>>, val |-> 0, err |-> Unset, events |-> <<>>]

NoApi == [op |-> "none", resp |-> NetErr(""), val |-> 0, err |-> Nil,
          sent |-> FALSE, handle |-> "none"]

\* No poll loop is running.
NoHost == [pc |-> "off", cursor |-> 0, batch |-> <<>>, i |-> 0, wire |-> <<>>,
           handled |-> {}]

\* NewBot: an empty command table, an unlocked mutex.
Init ==
    /\ commands = [t \in {} |-> ""]
    /\ mu = FALSE
    /\ pc = [p \in Procs |-> "idle"]
    /\ arg = [p \in Procs |-> NoArg]
    /\ local = [p \in Procs |-> NoLocal]
    /\ registered = [t \in {} |-> ""]
    /\ api = NoApi
    /\ host = NoHost

\* The arguments of a call.
Args(op, u, c, h) == [op |-> op, update |-> u, command |-> c, handler |-> h]

\* The call of thread p ends: control is back in the host.
End(p) ==
    /\ pc' = [pc EXCEPT ![p] = "idle"]
    /\ arg' = [arg EXCEPT ![p] = NoArg]
    /\ local' = [local EXCEPT ![p] = NoLocal]

\* A Lock that never waits.
CanLock_Always(m) == TRUE

\* sync.Mutex.Lock proceeds only on an unlocked mutex.
CanLock(m) == m = FALSE

\* A lookup that falls back to some registered handler on a miss.
Lookup_Fallback(table, text) ==
    IF text \in DOMAIN table THEN [handler |-> table[text], exists |-> TRUE]
    ELSE IF DOMAIN table # {}
    THEN [handler |-> table[CHOOSE t \in DOMAIN table : TRUE], exists |-> TRUE]
    ELSE [handler |-> "", exists |-> FALSE]

\* handler, exists := b.commands[text]
Lookup(table, text) ==
    IF text \in DOMAIN table THEN [handler |-> table[text], exists |-> TRUE]
    ELSE [handler |-> "", exists |-> FALSE]

\* A store that keeps the handler a command already has.
Store_KeepFirst(table, command, handler) ==
    [t \in DOMAIN table \cup {command} |->
        IF t \in DOMAIN table THEN table[t] ELSE handler]

\* b.commands[command] = handler
Store(table, command, handler) ==
    [t \in DOMAIN table \cup {command} |->
        IF t = command THEN handler ELSE table[t]]

\* A handler invocation handler(chatID).
EvHandler(h, chatID) == [kind |-> "handler", handler |-> h, chat |-> chatID]

\* An HTTP request.
EvHTTP(verb, url, form) == [kind |-> "http", verb |-> verb, url |-> url, form |-> form]

\* The request of SendMessage(chatID, text): a form POST to sendMessage.
SendMessageRequest(chatID, text) ==
    EvHTTP("POST", ApiURL("sendMessage"),
           [chat_id |-> FormatInt(chatID), text |-> text])

\* GetUpdates always asking from the beginning.
GetUpdatesRequest_NoOffset(offset) ==
    [kind |-> "http", verb |-> "POST",
     url |-> <<"https://api.telegram.org/bot", Token, "/", "getUpdates">>,
     form |-> [offset |-> <<"0">>]]

\* The request of GetUpdates(offset): a form POST to getUpdates.
GetUpdatesRequest(offset) ==
    EvHTTP("POST", ApiURL("getUpdates"), [offset |-> FormatInt(offset)])

\* The request of GetFileURL(fileID): a form POST to getFile.
GetFileRequest(fileID) == EvHTTP("POST", ApiURL("getFile"), [file_id |-> fileID])

\* The request of CountLinesInFile(fileURL): http.Get(fileURL).
DownloadRequest(fileURL) == EvHTTP("GET", fileURL, <<>>)

\* ----------------------------------------------------------- HandleUpdate
\* A host thread calls b.HandleUpdate(update).
HU_Call(p) ==
    /\ pc[p] = "idle"
    /\ \E text \in Texts, chat \in Chats :
        arg' = [arg EXCEPT ![p] =
                    Args("HandleUpdate", MkUpdate(0, text, chat, ""), "", "")]
    /\ pc' = [pc EXCEPT ![p] = "hu_lock"]
    /\ UNCHANGED <<commands, mu, local, registered, api, host>>

\* HandleUpdate entering without waiting for the mutex.
HU_Lock_NoWait(p) ==
    /\ pc[p] = "hu_lock"
    /\ mu' = TRUE
    /\ pc' = [pc EXCEPT ![p] = "hu_lookup"]
    /\ UNCHANGED <<commands, arg, local, registered, api, host>>

\* b.mu.Lock()
HU_Lock(p) ==
    /\ pc[p] = "hu_lock"
    /\ CanLock(mu)
    /\ mu' = TRUE
    /\ pc' = [pc EXCEPT ![p] = "hu_lookup"]
    /\ UNCHANGED <<commands, arg, local, registered, api, host>>

\* A HandleUpdate that holds the mutex for its lookup only.
HU_Lookup_ReleaseEarly(p) ==
    /\ pc[p] = "hu_lookup"
    /\ LET r == Lookup(commands, arg[p].update.text) IN
       /\ local' = [local EXCEPT ![p].handler = r.handler, ![p].exists = r.exists,
                                 ![p].err = IF r.exists THEN @ ELSE Nil]
       /\ pc' = [pc EXCEPT ![p] = IF r.exists THEN "hu_handler" ELSE "hu_unlock"]
    /\ mu' = FALSE
    /\ UNCHANGED <<commands, arg, registered, api, host>>

\* if handler, exists := b.commands[update.Message.Text]; exists
\* and, on a miss, the return nil after the if
HU_Lookup(p) ==
    /\ pc[p] = "hu_lookup"
    /\ LET r == Lookup(commands, arg[p].update.text) IN
       /\ local' = [local EXCEPT ![p].handler = r.handler, ![p].exists = r.exists,
                                 ![p].err = IF r.exists THEN @ ELSE Nil]
       /\ pc' = [pc EXCEPT ![p] = IF r.exists THEN "hu_handler" ELSE "hu_unlock"]
    /\ UNCHANGED <<commands, mu, arg, registered, api, host>>

\* response := handler(update.Message.Chat.ID)
HU_Handler(p) ==
    /\ pc[p] = "hu_handler"
    /\ local' = [local EXCEPT
            ![p].response = Reply(local[p].handler, arg[p].update.chat),
            ![p].events = Append(@, EvHandler(local[p].handler, arg[p].update.chat))]
    /\ pc' = [pc EXCEPT ![p] = "hu_send"]
    /\ UNCHANGED <<commands, mu, arg, registered, api, host>>

\* A dispatch that sends only a non-empty response.
HU_Send_SkipEmpty(p) ==
    /\ pc[p] = "hu_send"
    /\ \E resp \in PlainResps :
        local' = [local EXCEPT
            ![p].sendErr = IF local[p].response = "" THEN Nil ELSE SendMessage(resp),
            ![p].err = Nil,
            ![p].events = IF local[p].response = "" THEN @
                          ELSE Append(@, SendMessageRequest(arg[p].update.chat,
                                                            local[p].response))]
    /\ pc' = [pc EXCEPT ![p] = "hu_unlock"]
    /\ UNCHANGED <<commands, mu, arg, registered, api, host>>

\* A dispatch that returns the error of its send.
HU_Send_Propagate(p) ==
    /\ pc[p] = "hu_send"
    /\ \E resp \in PlainResps :
        local' = [local EXCEPT
            ![p].sendErr = SendMessage(resp),
            ![p].err = SendMessage(resp),
            ![p].events = Append(@, SendMessageRequest(arg[p].update.chat,
                                                       local[p].response))]
    /\ pc' = [pc EXCEPT ![p] = "hu_unlock"]
    /\ UNCHANGED <<commands, mu, arg, registered, api, host>>

\* b.SendMessage(update.Message.Chat.ID, response), its error discarded
\* (sendErr keeps it for inspection), and the return nil
HU_Send(p) ==
    /\ pc[p] = "hu_send"
    /\ \E resp \in PlainResps :
        local' = [local EXCEPT
            ![p].sendErr = SendMessage(resp),
            ![p].err = Nil,
            ![p].events = Append(@, SendMessageRequest(arg[p].update.chat,
                                                       local[p].response))]
    /\ pc' = [pc EXCEPT ![p] = "hu_unlock"]
    /\ UNCHANGED <<commands, mu, arg, registered, api, host>>

\* A HandleUpdate that unlocks inside the if-body only.
HU_Unlock_LeakOnMiss(p) ==
    /\ pc[p] = "hu_unlock"
    /\ mu' = (IF local[p].exists THEN FALSE ELSE mu)
    /\ End(p)
    /\ UNCHANGED <<commands, registered, api, host>>

\* the deferred b.mu.Unlock(); the call ends
HU_Unlock(p) ==
    /\ pc[p] = "hu_unlock"
    /\ mu' = FALSE
    /\ End(p)
    /\ UNCHANGED <<commands, registered, api, host>>

\* ------------------------------------------------------------- AddCommand
\* A host thread calls b.AddCommand(command, handler).
AC_Call(p) ==
    /\ pc[p] = "idle"
    /\ \E command \in Texts, handler \in Handlers :
        arg' = [arg EXCEPT ![p] =
                    Args("AddCommand", MkUpdate(0, "", 0, ""), command, handler)]
    /\ pc' = [pc EXCEPT ![p] = "ac_lock"]
    /\ UNCHANGED <<commands, mu, local, registered, api, host>>

\* A Lock that lets in the thread whose own dispatch holds the mutex (a
\* re-entrant mutex).
AC_Lock_Reentrant(p) ==
    /\ pc[p] = "ac_lock"
    /\ (mu = FALSE \/ local[p].exists)
    /\ mu' = TRUE
    /\ pc' = [pc EXCEPT ![p] = "ac_write"]
    /\ UNCHANGED <<commands, arg, local, registered, api, host>>

\* AddCommand writing without taking the mutex.
AC_Lock_Skip(p) ==
    /\ pc[p] = "ac_lock"
    /\ pc' = [pc EXCEPT ![p] = "ac_write"]
    /\ UNCHANGED <<commands, mu, arg, local, registered, api, host>>

\* b.mu.Lock()
AC_Lock(p) ==
    /\ pc[p] = "ac_lock"
    /\ CanLock(mu)
    /\ mu' = TRUE
    /\ pc' = [pc EXCEPT ![p] = "ac_write"]
    /\ UNCHANGED <<commands, arg, local, registered, api, host>>

\* b.commands[command] = handler
AC_Write(p) ==
    /\ pc[p] = "ac_write"
    /\ commands' = Store(commands, arg[p].command, arg[p].handler)
    /\ registered' = [t \in DOMAIN registered \cup {arg[p].command} |->
                        IF t = arg[p].command THEN arg[p].handler ELSE registered[t]]
    /\ pc' = [pc EXCEPT ![p] = "ac_unlock"]
    /\ UNCHANGED <<mu, arg, local, api, host>>

\* the deferred b.mu.Unlock(); the call ends
AC_Unlock(p) ==
    /\ pc[p] = "ac_unlock"
    /\ mu' = FALSE
    /\ End(p)
    /\ UNCHANGED <<commands, registered, api, host>>

\* --------------------------------------------------------- HandleDocument
\* A host thread calls b.HandleDocument(update).
HD_Call(p) ==
    /\ pc[p] = "idle"
    /\ \E fileID \in FileIDs :
        arg' = [arg EXCEPT ![p] =
                    Args("HandleDocument", MkUpdate(0, "", 0, fileID), "", "")]
    /\ pc' = [pc EXCEPT ![p] = "hd_check"]
    /\ UNCHANGED <<commands, mu, local, registered, api, host>>

\* if update.Message.Document.FileID == "" { return 0, errors.New(...) }
HD_Check(p) ==
    /\ pc[p] = "hd_check"
    /\ IF arg[p].update.file_id = ""
       THEN /\ local' = [local EXCEPT ![p].val = 0,
                            ![p].err = ErrorsNew("no document file ID found")]
            /\ pc' = [pc EXCEPT ![p] = "hd_return"]
       ELSE /\ pc' = [pc EXCEPT ![p] = "hd_getfile"]
            /\ UNCHANGED local
    /\ UNCHANGED <<commands, mu, arg, registered, api, host>>

\* HandleDocument going on to the download whatever GetFileURL returned.
HD_GetFile_IgnoreErr(p) ==
    /\ pc[p] = "hd_getfile"
    /\ \E resp \in DocFileResps :
        local' = [local EXCEPT
            ![p].fileURL = GetFileURL(resp).val,
            ![p].events = Append(@, GetFileRequest(arg[p].update.file_id))]
    /\ pc' = [pc EXCEPT ![p] = "hd_count"]
    /\ UNCHANGED <<commands, mu, arg, registered, api, host>>

\* fileURL, err := b.GetFileURL(update.Message.Document.FileID)
\* if err != nil { return 0, err }
HD_GetFile(p) ==
    /\ pc[p] = "hd_getfile"
    /\ \E resp \in DocFileResps :
        LET r == GetFileURL(resp)
            events == Append(local[p].events, GetFileRequest(arg[p].update.file_id))
        IN
        IF r.err # Nil
        THEN /\ local' = [local EXCEPT ![p].val = 0, ![p].err = r.err,
                                       ![p].events = events]
             /\ pc' = [pc EXCEPT ![p] = "hd_return"]
        ELSE /\ local' = [local EXCEPT ![p].fileURL = r.val, ![p].events = events]
             /\ pc' = [pc EXCEPT ![p] = "hd_count"]
    /\ UNCHANGED <<commands, mu, arg, registered, api, host>>

\* lineCount, err := b.CountLinesInFile(fileURL)
\* if err != nil { return 0, err }
HD_Count(p) ==
    /\ pc[p] = "hd_count"
    /\ \E resp \in DocDownloadResps :
        LET r == CountLinesInFile(resp) IN
        local' = [local EXCEPT
            ![p].val = IF r.err # Nil THEN 0 ELSE r.val,
            ![p].err = r.err,
            ![p].events = Append(@, DownloadRequest(local[p].fileURL))]
    /\ pc' = [pc EXCEPT ![p] = "hd_return"]
    /\ UNCHANGED <<commands, mu, arg, registered, api, host>>

\* HandleDocument has returned (local.val, local.err); the call ends.
HD_Return(p) ==
    /\ pc[p] = "hd_return"
    /\ End(p)
    /\ UNCHANGED <<commands, mu, registered, api, host>>

Next ==
    \E p \in Procs :
        \/ HU_Call(p) \/ HU_Lock(p) \/ HU_Lookup(p) \/ HU_Handler(p)
        \/ HU_Send(p) \/ HU_Unlock(p)
        \/ AC_Call(p) \/ AC_Lock(p) \/ AC_Write(p) \/ AC_Unlock(p)
        \/ HD_Call(p) \/ HD_Check(p) \/ HD_GetFile(p) \/ HD_Count(p)
        \/ HD_Return(p)

Spec == Init /\ [][Next]_vars

\* ------------------------------------------------- the API operations alone
\* One host thread calls an API operation; the remote side answers with any
\* response. api keeps the call, the response and what the call returned.
ApiSendMessage ==
    /\ \E resp \in PlainResps :
        api' = [op |-> "SendMessage", resp |-> resp, val |-> 0,
                err |-> SendMessage(resp), sent |-> TRUE, handle |-> "none"]
    /\ UNCHANGED <<commands, mu, pc, arg, local, registered, host>>

ApiGetUpdates ==
    /\ \E resp \in UpdateResps :
        LET r == GetUpdates(resp) IN
        api' = [op |-> "GetUpdates", resp |-> resp, val |-> r.val,
                err |-> r.err, sent |-> TRUE, handle |-> "none"]
    /\ UNCHANGED <<commands, mu, pc, arg, local, registered, host>>

ApiGetFileURL ==
    /\ \E resp \in FileResps :
        LET r == GetFileURL(resp) IN
        api' = [op |-> "GetFileURL", resp |-> resp, val |-> r.val,
                err |-> r.err, sent |-> TRUE, handle |-> "none"]
    /\ UNCHANGED <<commands, mu, pc, arg, local, registered, host>>

\* No response is drawn for a SendFile that fails before its request.
ApiSendFile ==
    /\ \E failAt \in LocalFailures, resp \in PlainResps :
        LET r == SendFile(failAt, resp) IN
        /\ ~r.sent => resp = NetErr("")
        /\ api' = [op |-> "SendFile", resp |-> resp, val |-> 0, err |-> r.err,
                   sent |-> r.sent, handle |-> r.handle]
    /\ UNCHANGED <<commands, mu, pc, arg, local, registered, host>>

ApiCountLinesInFile ==
    /\ \E resp \in DownloadResps :
        LET r == CountLinesInFile(resp) IN
        api' = [op |-> "CountLinesInFile", resp |-> resp, val |-> r.val,
                err |-> r.err, sent |-> TRUE, handle |-> "none"]
    /\ UNCHANGED <<commands, mu, pc, arg, local, registered, host>>

NextApi ==
    \/ ApiGetFileURL
    \/ ApiGetUpdates
    \/ ApiSendMessage
    \/ ApiSendFile
    \/ ApiCountLinesInFile

SpecApi == Init /\ [][NextApi]_vars

\* ------------------------------------------------------ the host poll loop
\* The loop of the host, as the specification gives it:
\*   cursor <- 0
\*   loop { batch <- getUpdates(cursor)
\*          for u in batch: HandleUpdate(u); cursor <- max(cursor, u.update_id+1) }
\* run by one host thread after it has registered its commands. GetUpdates,
\* HandleUpdate and AddCommand are those of the package.
PollThread == 1

\* The updates the platform has for the bot: update ids ascending from 10.
UpdateIDs == 10..(9 + MaxUpdates)

PlatformUpdate(id) ==
    MkUpdate(id, IF id % 2 = 0 THEN "/ping" ELSE "/other",
             IF id % 2 = 0 THEN 42 ELSE -7, "")

\* The decimal text of a form field read back as a number.
DigitValue(c) == CHOOSE d \in 0..9 : Digit(d) = c

RECURSIVE ParseNat(_)
ParseNat(digits) ==
    IF Len(digits) = 0 THEN 0
    ELSE 10 * ParseNat(SubSeq(digits, 1, Len(digits) - 1))
         + DigitValue(digits[Len(digits)])

ParseInt(digits) ==
    IF Len(digits) > 0 /\ digits[1] = "-"
    THEN 0 - ParseNat(SubSeq(digits, 2, Len(digits)))
    ELSE ParseNat(digits)

\* The ids of a set, as the sequence of their updates in ascending order.
RECURSIVE Ascending(_)
Ascending(ids) ==
    IF ids = {} THEN <<>>
    ELSE LET least == CHOOSE x \in ids : \A y \in ids : x <= y IN
         <<PlatformUpdate(least)>> \o Ascending(ids \ {least})

\* The result arrays the platform may answer getUpdates with for the offset
\* field of the request: updates with update_id >= offset, in ascending
\* order of update_id (none, some or all of them).
Served(offsetField) ==
    {Ascending(ids) : ids \in SUBSET {id \in UpdateIDs : id >= ParseInt(offsetField)}}

PollResps(request) == Resps(Served(request.form.offset), <<>>)

Max(a, b) == IF a > b THEN a ELSE b

\* The state of the host when it is about to start its loop.
InitPoll ==
    /\ commands = [t \in {} |-> ""]
    /\ mu = FALSE
    /\ pc = [p \in Procs |-> "idle"]
    /\ arg = [p \in Procs |-> NoArg]
    /\ local = [p \in Procs |-> NoLocal]
    /\ registered = [t \in {} |-> ""]
    /\ api = NoApi
    /\ host = [NoHost EXCEPT !.pc = "setup"]

\* The host registers a command before it starts polling.
Poll_AddCommand ==
    /\ host.pc = "setup"
    /\ AC_Call(PollThread)

\* cursor <- 0; the loop starts.
Poll_Start ==
    /\ host.pc = "setup"
    /\ pc[PollThread] = "idle"
    /\ host' = [host EXCEPT !.pc = "poll", !.cursor = 0]
    /\ UNCHANGED <<commands, mu, pc, arg, local, registered, api>>

\* batch <- getUpdates(cursor); a failed poll gives no batch. wire keeps the
\* result array of the response GetUpdates took its batch from.
Poll_GetUpdates ==
    /\ host.pc = "poll"
    /\ \E resp \in PollResps(GetUpdatesRequest(host.cursor)) :
        LET r == GetUpdates(resp) IN
        host' = [host EXCEPT !.pc = "iter", !.batch = r.val, !.i = 1,
                             !.wire = IF r.err = Nil THEN resp.result ELSE <<>>]
    /\ UNCHANGED <<commands, mu, pc, arg, local, registered, api>>

\* for u in batch: HandleUpdate(u) is called
Poll_Dispatch ==
    /\ host.pc = "iter"
    /\ host.i <= Len(host.batch)
    /\ arg' = [arg EXCEPT ![PollThread] =
                    Args("HandleUpdate", host.batch[host.i], "", "")]
    /\ pc' = [pc EXCEPT ![PollThread] = "hu_lock"]
    /\ host' = [host EXCEPT !.pc = "dispatching"]
    /\ UNCHANGED <<commands, mu, local, registered, api>>

\* HandleUpdate(u) has returned: cursor <- max(cursor, u.update_id + 1)
Poll_Advance ==
    /\ host.pc = "dispatching"
    /\ pc[PollThread] = "idle"
    /\ LET u == host.batch[host.i] IN
        host' = [host EXCEPT !.pc = "iter", !.i = @ + 1,
                             !.cursor = Max(@, u.update_id + 1),
                             !.handled = @ \cup {u.update_id}]
    /\ UNCHANGED <<commands, mu, pc, arg, local, registered, api>>

\* the batch is exhausted: the next iteration of the loop
Poll_Loop ==
    /\ host.pc = "iter"
    /\ host.i > Len(host.batch)
    /\ host' = [host EXCEPT !.pc = "poll"]
    /\ UNCHANGED <<commands, mu, pc, arg, local, registered, api>>

NextPoll ==
    \/ Poll_AddCommand
    \/ AC_Lock(PollThread) \/ AC_Write(PollThread) \/ AC_Unlock(PollThread)
    \/ Poll_Start
    \/ Poll_GetUpdates
    \/ Poll_Dispatch
    \/ HU_Lock(PollThread) \/ HU_Lookup(PollThread) \/ HU_Handler(PollThread)
    \/ HU_Send(PollThread) \/ HU_Unlock(PollThread)
    \/ Poll_Advance
    \/ Poll_Loop

SpecPoll == InitPoll /\ [][NextPoll]_vars

\* ------------------------------------------- fair scheduling of the calls
\* Threads calling AddCommand and HandleUpdate under a fair scheduler: a
\* thread that can take its next step does take it (handlers return, HTTP
\* calls return), and a thread waiting in Lock gets the mutex if it is free
\* again and again (sync.Mutex hands the mutex to a starving waiter). The
\* host is not obliged to make calls. The threads register "/ping" and
\* dispatch updates of chat 42 whose text is "/ping" or "/other".
Fair_HandleUpdate(p) ==
    /\ pc[p] = "idle"
    /\ \E text \in Texts :
        arg' = [arg EXCEPT ![p] =
                    Args("HandleUpdate", MkUpdate(0, text, 42, ""), "", "")]
    /\ pc' = [pc EXCEPT ![p] = "hu_lock"]
    /\ UNCHANGED <<commands, mu, local, registered, api, host>>

Fair_AddCommand(p) ==
    /\ pc[p] = "idle"
    /\ \E handler \in Handlers :
        arg' = [arg EXCEPT ![p] =
                    Args("AddCommand", MkUpdate(0, "", 0, ""), "/ping", handler)]
    /\ pc' = [pc EXCEPT ![p] = "ac_lock"]
    /\ UNCHANGED <<commands, mu, local, registered, api, host>>

NextFair ==
    \E p \in Procs :
        \/ Fair_HandleUpdate(p) \/ HU_Lock(p) \/ HU_Lookup(p) \/ HU_Handler(p)
        \/ HU_Send(p) \/ HU_Unlock(p)
        \/ Fair_AddCommand(p) \/ AC_Lock(p) \/ AC_Write(p) \/ AC_Unlock(p)

Fairness ==
    \A p \in Procs :
        /\ WF_vars(HU_Lookup(p) \/ HU_Handler(p) \/ HU_Send(p) \/ HU_Unlock(p))
        /\ WF_vars(AC_Write(p) \/ AC_Unlock(p))
        /\ SF_vars(HU_Lock(p))
        /\ SF_vars(AC_Lock(p))

SpecFair == Init /\ [][NextFair]_vars /\ Fairness

\* ------------------------------------------ handlers that call the Bot
\* Threads register and dispatch "/ping" with handlers that may call back
\* into the Bot that runs them: hReAdd calls b.AddCommand("/other", hPong)
\* and hReDispatch calls b.HandleUpdate for the text "/other" of its chat,
\* each before it returns its string. The call a handler makes is made by
\* the thread of the dispatch, whose locals stay as they are meanwhile.
ReHandlers == {"hPong", "hReAdd", "hReDispatch"}

Re_AddCommand(p) ==
    /\ pc[p] = "idle"
    /\ \E handler \in ReHandlers :
        arg' = [arg EXCEPT ![p] =
                    Args("AddCommand", MkUpdate(0, "", 0, ""), "/ping", handler)]
    /\ pc' = [pc EXCEPT ![p] = "ac_lock"]
    /\ UNCHANGED <<commands, mu, local, registered, api, host>>

Re_HandleUpdate(p) ==
    /\ pc[p] = "idle"
    /\ \E text \in Texts :
        arg' = [arg EXCEPT ![p] =
                    Args("HandleUpdate", MkUpdate(0, text, 42, ""), "", "")]
    /\ pc' = [pc EXCEPT ![p] = "hu_lock"]
    /\ UNCHANGED <<commands, mu, local, registered, api, host>>

\* response := handler(chatID) for a handler that returns without calling
\* the Bot
Re_PlainHandler(p) ==
    /\ local[p].handler \in Handlers
    /\ HU_Handler(p)

\* response := handler(chatID) for hReAdd: the handler is invoked and calls
\* b.AddCommand("/other", hPong)
Re_HandlerAddCommand(p) ==
    /\ pc[p] = "hu_handler"
    /\ local[p].handler = "hReAdd"
    /\ local' = [local EXCEPT
            ![p].events = Append(@, EvHandler(local[p].handler, arg[p].update.chat))]
    /\ arg' = [arg EXCEPT ![p] =
                    Args("AddCommand", arg[p].update, "/other", "hPong")]
    /\ pc' = [pc EXCEPT ![p] = "ac_lock"]
    /\ UNCHANGED <<commands, mu, registered, api, host>>

\* response := handler(chatID) for hReDispatch: the handler is invoked and
\* calls b.HandleUpdate(update) with the text "/other"
Re_HandlerHandleUpdate(p) ==
    /\ pc[p] = "hu_handler"
    /\ local[p].handler = "hReDispatch"
    /\ local' = [local EXCEPT
            ![p].events = Append(@, EvHandler(local[p].handler, arg[p].update.chat))]
    /\ arg' = [arg EXCEPT ![p] =
                    Args("HandleUpdate",
                         MkUpdate(0, "/other", arg[p].update.chat, ""), "", "")]
    /\ pc' = [pc EXCEPT ![p] = "hu_lock"]
    /\ UNCHANGED <<commands, mu, registered, api, host>>

NextReentrant ==
    \E p \in Procs :
        \/ Re_AddCommand(p) \/ AC_Lock(p) \/ AC_Write(p) \/ AC_Unlock(p)
        \/ Re_HandleUpdate(p) \/ HU_Lock(p) \/ HU_Lookup(p)
        \/ Re_PlainHandler(p) \/ Re_HandlerAddCommand(p)
        \/ Re_HandlerHandleUpdate(p)
        \/ HU_Send(p) \/ HU_Unlock(p)

SpecReentrant == Init /\ [][NextReentrant]_vars

\* ------------------------------------------------ requests and deadlines
\* One host thread calls an API operation; the operation issues its request
\* through an HTTP client and waits. The remote side answers or stays
\* silent; a client with a Timeout ends the wait with a transport error.
ApiOps == {"SendMessage", "GetUpdates", "GetFileURL", "SendFile", "CountLinesInFile"}

\* The client each operation issues its request with: b.Client.PostForm,
\* b.Client.Do, and the package-level http.Get, which uses
\* http.DefaultClient.
ClientOf(op) == IF op = "CountLinesInFile" THEN "http.DefaultClient" ELSE "b.Client"

\* Client.Timeout in seconds: 30 for the client NewBot builds, 0 (no
\* deadline) for http.DefaultClient.
ClientTimeout(client) == IF client = "b.Client" THEN 30 ELSE 0

\* The responses the remote side may give to the request of op.
ResponsesTo(op) ==
    IF op = "GetUpdates" THEN UpdateResps
    ELSE IF op = "GetFileURL" THEN FileResps
    ELSE IF op = "CountLinesInFile" THEN DownloadResps
    ELSE PlainResps

\* The failure of the round trip, as the operation sees it.
TransportFailure(op) ==
    IF op = "GetUpdates" THEN NetErr(<<>>)
    ELSE IF op = "CountLinesInFile" THEN NetErrDownload
    ELSE NetErr("")

\* What op returns for the response to its request.
ResultOf(op, resp) ==
    IF op = "SendMessage" THEN [val |-> <<>>, err |-> SendMessage(resp)]
    ELSE IF op = "GetUpdates" THEN GetUpdates(resp)
    ELSE IF op = "GetFileURL" THEN GetFileURL(resp)
    ELSE IF op = "SendFile" THEN [val |-> <<>>, err |-> SendFile("none", resp).err]
    ELSE LET r == CountLinesInFile(resp) IN [val |-> <<r.val>>, err |-> r.err]

NoRequest == [op |-> "none", client |-> "none", phase |-> "idle",
              resp |-> NetErr(""), val |-> <<>>, err |-> Nil]

InitDeadline ==
    /\ commands = [t \in {} |-> ""]
    /\ mu = FALSE
    /\ pc = [p \in Procs |-> "idle"]
    /\ arg = [p \in Procs |-> NoArg]
    /\ local = [p \in Procs |-> NoLocal]
    /\ registered = [t \in {} |-> ""]
    /\ api = NoRequest
    /\ host = NoHost

\* The operation is called and issues its request.
Dl_Request ==
    /\ api.phase # "waiting"
    /\ \E op \in ApiOps :
        api' = [NoRequest EXCEPT !.op = op, !.client = ClientOf(op),
                                 !.phase = "waiting"]
    /\ UNCHANGED <<commands, mu, pc, arg, local, registered, host>>

\* The round trip ends (a response, or a failure of the connection) and the
\* operation returns.
Dl_Respond ==
    /\ api.phase = "waiting"
    /\ \E resp \in ResponsesTo(api.op) :
        LET r == ResultOf(api.op, resp) IN
        api' = [api EXCEPT !.phase = "returned", !.resp = resp,
                           !.val = r.val, !.err = r.err]
    /\ UNCHANGED <<commands, mu, pc, arg, local, registered, host>>

\* The client's Timeout expires before the round trip ends: the client
\* gives the operation an error.
Dl_Deadline ==
    /\ api.phase = "waiting"
    /\ ClientTimeout(api.client) > 0
    /\ LET resp == TransportFailure(api.op)
           r == ResultOf(api.op, resp) IN
        api' = [api EXCEPT !.phase = "timed out", !.resp = resp,
                           !.val = r.val, !.err = r.err]
    /\ UNCHANGED <<commands, mu, pc, arg, local, registered, host>>

NextDeadline ==
    \/ Dl_Request
    \/ Dl_Respond
    \/ Dl_Deadline

SpecDeadline == InitDeadline /\ [][NextDeadline]_vars

\* ------------------------------------------- the command table alone
\* One host thread calls AddCommand and HandleUpdate one after the other,
\* with command texts that differ only in the case of their letters.
CaseTexts == {"/ping", "/PING"}

Table_AddCommand ==
    /\ pc[PollThread] = "idle"
    /\ \E command \in CaseTexts, handler \in Handlers :
        arg' = [arg EXCEPT ![PollThread] =
                    Args("AddCommand", MkUpdate(0, "", 0, ""), command, handler)]
    /\ pc' = [pc EXCEPT ![PollThread] = "ac_lock"]
    /\ UNCHANGED <<commands, mu, local, registered, api, host>>

Table_HandleUpdate ==
    /\ pc[PollThread] = "idle"
    /\ \E text \in CaseTexts, chat \in Chats :
        arg' = [arg EXCEPT ![PollThread] =
                    Args("HandleUpdate", MkUpdate(0, text, chat, ""), "", "")]
    /\ pc' = [pc EXCEPT ![PollThread] = "hu_lock"]
    /\ UNCHANGED <<commands, mu, local, registered, api, host>>

NextTable ==
    \/ Table_AddCommand
    \/ AC_Lock(PollThread) \/ AC_Write(PollThread) \/ AC_Unlock(PollThread)
    \/ Table_HandleUpdate
    \/ HU_Lock(PollThread) \/ HU_Lookup(PollThread) \/ HU_Handler(PollThread)
    \/ HU_Send(PollThread) \/ HU_Unlock(PollThread)

SpecTable == Init /\ [][NextTable]_vars

\* ------------------------------------------------- the line counter alone
\* The bodies of up to MaxLine bytes, so that a line can be shorter than the
\* reader's buffer, fill it exactly, or be longer than it.
LineBodies == SeqsUpTo(Bytes, MaxLine)

LineDownloads ==
    [net : {FALSE}, status : Statuses, bytes : LineBodies, end : {"EOF", "err"},
     eager : BOOLEAN]

\* http.Get(fileURL) has been answered with some response.
InitLines ==
    /\ commands = [t \in {} |-> ""]
    /\ mu = FALSE
    /\ pc = [p \in Procs |-> "idle"]
    /\ arg = [p \in Procs |-> NoArg]
    /\ local = [p \in Procs |-> NoLocal]
    /\ registered = [t \in {} |-> ""]
    /\ \E resp \in LineDownloads :
        api = [op |-> "http.Get", resp |-> resp, val |-> 0, err |-> Unset,
               sent |-> TRUE, handle |-> "none"]
    /\ host = NoHost

\* The rest of CountLinesInFile: the status check and the ReadLine loop.
LinesCount ==
    /\ api.op = "http.Get"
    /\ LET r == CountLinesInFile(api.resp) IN
        api' = [api EXCEPT !.op = "CountLinesInFile", !.val = r.val, !.err = r.err]
    /\ UNCHANGED <<commands, mu, pc, arg, local, registered, host>>

NextLines == LinesCount

SpecLines == InitLines /\ [][NextLines]_vars

\* ===================================================================
\* Properties of HandleUpdate, AddCommand and HandleDocument (Spec)
\* ===================================================================

\* The reply has been sent and HandleUpdate is about to end its call.
Dispatched(p) == pc[p] = "hu_unlock" /\ local[p].exists

\* C1: a HandleUpdate whose text t was registered by AddCommand(t, h) (the
\* latest one for t) invokes h exactly once, with the update's chat id, and
\* then issues exactly one sendMessage request carrying that chat id (in
\* decimal) and the string h returned, also when that string is empty: when
\* the call reaches its end these two are all it has done.
C1_HandlerOnceThenOneSend ==
    \A p \in Procs :
        (pc[p] = "hu_unlock" /\ arg[p].update.text \in DOMAIN registered) =>
            LET h == registered[arg[p].update.text]
                chat == arg[p].update.chat
            IN local[p].events =
                <<[kind |-> "handler", handler |-> h, chat |-> chat],
                  [kind |-> "http", verb |-> "POST",
                   url |-> <<"https://api.telegram.org/bot", Token, "/", "sendMessage">>,
                   form |-> [chat_id |-> FormatInt(chat), text |-> Reply(h, chat)]]>>

\* A dispatch whose handler returned the empty string has sent its reply.
C1_Witness ==
    \E p \in Procs :
        /\ Dispatched(p)
        /\ local[p].response = ""
        /\ Len(local[p].events) = 2
        /\ local[p].events[2].form.text = ""
        /\ arg[p].update.chat = -7

\* C2: a HandleUpdate whose text is not a key of the command table when it
\* looks it up goes straight to its return with the result nil, having invoked
\* no handler and issued no HTTP request, and the command table stays as it
\* is until the call has ended.
C2_MissIsSilent ==
    [][\A p \in Procs :
        /\ (pc[p] = "hu_lookup" /\ pc'[p] # "hu_lookup"
              /\ arg[p].update.text \notin DOMAIN commands) =>
                /\ pc'[p] = "hu_unlock"
                /\ local'[p].err = Nil
                /\ local'[p].events = <<>>
                /\ commands' = commands
        /\ (pc[p] = "hu_unlock" /\ ~local[p].exists) =>
                /\ commands' = commands
                /\ pc'[p] = "hu_unlock" => local'[p] = local[p]
                /\ pc'[p] \in {"hu_unlock", "idle"}]_vars

\* A miss on a table that holds another command ("/ping" registered,
\* "/other" received).
C2_Witness ==
    \E p \in Procs :
        /\ pc[p] = "hu_unlock"
        /\ ~local[p].exists
        /\ local[p].err = Nil
        /\ local[p].events = <<>>
        /\ arg[p].update.text = "/other"
        /\ DOMAIN commands = {"/ping"}

\* C3: no lookup of the command table happens while an AddCommand is writing
\* it, and the handler a lookup found is the one of the latest AddCommand
\* that has written that text: the table before or after a write, never a
\* table in between.
C3_NoTornTable ==
    \A p \in Procs :
        /\ pc[p] = "hu_lookup" => \A q \in Procs : pc[q] # "ac_write"
        /\ pc[p] \in {"hu_handler", "hu_send"} =>
            /\ arg[p].update.text \in DOMAIN registered
            /\ local[p].handler = registered[arg[p].update.text]

\* A lookup is about to read the table while an AddCommand for the same text
\* waits for the mutex.
C3_Witness ==
    \E p \in Procs, q \in Procs :
        /\ pc[p] = "hu_lookup"
        /\ pc[q] = "ac_lock"
        /\ arg[q].command = arg[p].update.text

InCritical(p) ==
    pc[p] \in {"hu_lookup", "hu_handler", "hu_send", "hu_unlock", "ac_write", "ac_unlock"}

InHandleDocument(p) == pc[p] \in {"hd_check", "hd_getfile", "hd_count", "hd_return"}

\* C4 as stated: AddCommand, HandleUpdate and HandleDocument each hold the
\* exclusion for their entire duration, so no two calls among the three
\* execute at the same time.
C4_Original ==
    /\ \A p \in Procs : (InCritical(p) \/ InHandleDocument(p)) => mu = TRUE
    /\ \A p \in Procs, q \in Procs :
        (p # q /\ (InCritical(p) \/ InHandleDocument(p))) =>
            ~(InCritical(q) \/ InHandleDocument(q))

\* C4 amended: AddCommand and HandleUpdate hold the exclusion from their Lock
\* to their return, so no two calls among these two execute at the same time
\* and the nested sendMessage happens with the exclusion held.
C4_Amended ==
    /\ \A p \in Procs : InCritical(p) => mu = TRUE
    /\ \A p \in Procs, q \in Procs : (p # q /\ InCritical(p)) => ~InCritical(q)

\* HandleDocument, which takes no lock, is resolving its file while a
\* HandleUpdate is sending its reply with the exclusion held.
C4_Witness ==
    \E p \in Procs, q \in Procs :
        /\ pc[p] = "hu_send"
        /\ mu = TRUE
        /\ pc[q] \in {"hd_getfile", "hd_count"}

\* A call of AddCommand or HandleUpdate by thread q.
Guarded(q) == arg[q].op \in {"HandleUpdate", "AddCommand"}

\* C5: from the handler invocation of a HandleUpdate to its reply, no other
\* HandleUpdate invokes a handler or sends and no AddCommand writes the
\* table; the reply is the call's next step, and it is sent before the call
\* ends.
C5_DispatchesDoNotInterleave ==
    [][\A p \in Procs : pc[p] = "hu_send" =>
        /\ commands' = commands
        /\ \A q \in Procs \ {p} :
            Guarded(q) => (local'[q].events = local[q].events /\ Guarded(q)')
        /\ pc'[p] \in {"hu_send", "hu_unlock"}
        /\ pc'[p] = "hu_unlock" =>
            /\ Len(local'[p].events) = Len(local[p].events) + 1
            /\ local'[p].events[Len(local'[p].events)].kind = "http"]_vars

\* A HandleUpdate has invoked its handler and not sent its reply yet, while
\* another HandleUpdate for a registered command waits for the mutex.
C5_Witness ==
    \E p \in Procs, q \in Procs :
        /\ pc[p] = "hu_send"
        /\ pc[q] = "hu_lock"
        /\ arg[q].update.text \in DOMAIN commands

\* Thread p is in a dispatch: its HandleUpdate holds the exclusion and has
\* not returned.
InDispatch(p) == pc[p] \in {"hu_lookup", "hu_handler", "hu_send", "hu_unlock"}

\* C17: while a dispatch is in progress (from the moment its HandleUpdate
\* has the exclusion to its return) the command table stays as it was at the
\* dispatch's start and the handler the dispatch found stays its handler, so
\* an AddCommand issued meanwhile does not affect it; such an AddCommand
\* writes the table only when no dispatch is in progress; and every dispatch
\* that starts after the write looks up the written table: it finds the
\* handler of the latest write for its text.
C17_RegistrationAfterDispatch ==
    [][\A p \in Procs :
        /\ (InDispatch(p) /\ InDispatch(p)') =>
            /\ commands' = commands
            /\ pc[p] # "hu_lookup" =>
                (local'[p].handler = local[p].handler /\ local'[p].exists = local[p].exists)
        /\ (pc[p] = "ac_lock" /\ pc'[p] = "ac_write") =>
            \A q \in Procs : ~InDispatch(q)
        /\ (pc[p] = "ac_write" /\ pc'[p] # "ac_write") =>
            \A q \in Procs : ~InDispatch(q)
        /\ (pc[p] = "hu_lookup" /\ pc'[p] # "hu_lookup") =>
            LET t == arg[p].update.text IN
            IF t \in DOMAIN registered
            THEN local'[p].exists /\ local'[p].handler = registered[t]
            ELSE ~local'[p].exists]_vars

\* A dispatch for "/ping" has invoked the handler it found, hEmpty, while
\* an AddCommand("/ping", hPong) waits for the exclusion the dispatch holds.
C17_Witness ==
    \E p \in Procs, q \in Procs :
        /\ pc[p] = "hu_send"
        /\ arg[p].update.text = "/ping"
        /\ local[p].handler = "hEmpty"
        /\ pc[q] = "ac_lock"
        /\ arg[q].command = "/ping"
        /\ arg[q].handler = "hPong"
        /\ mu = TRUE

\* The HTTP requests among the events of a call.
Requests(ev) == {k \in 1..Len(ev) : ev[k].kind = "http"}

\* C15: a HandleUpdate that reaches its return returns nil, whether no
\* command matched or the reply was sent, and whatever SendMessage returned
\* for the reply (success, a transport error, the error of a non-200
\* status); it has issued at most one request, so a failed send was not
\* tried again.
C15_SendErrorDropped ==
    \A p \in Procs :
        pc[p] = "hu_unlock" =>
            /\ local[p].err = Nil
            /\ Cardinality(Requests(local[p].events)) = (IF local[p].exists THEN 1 ELSE 0)
            /\ local[p].sendErr \in
                    {Nil, ErrTransport, ErrorsNew("failed to send message")}

\* A HandleUpdate is returning nil after its reply was answered with a
\* non-200 status.
C15_Witness ==
    \E p \in Procs :
        /\ pc[p] = "hu_unlock"
        /\ local[p].sendErr.msg = <<"failed to send message">>
        /\ local[p].err.type = "nil"
        /\ Len(local[p].events) = 2

\* The errors GetFileURL can return.
GetFileErrors ==
    {[type |-> "*url.Error", msg |-> <<"round trip failed">>],
     [type |-> "*json.SyntaxError", msg |-> <<"invalid character">>],
     [type |-> "*errors.errorString", msg |-> <<"failed to get file URL">>]}

\* C11: a HandleDocument for an update without a file id returns count 0 and
\* the no-document error having issued no HTTP request. With a file id its
\* first request is the getFile POST for that id; the download GET is issued
\* only after getFile succeeded, to the URL getFile gave, and nothing comes
\* after it; when getFile fails the call returns 0 and getFile's error and
\* the getFile POST is the only request it has issued.
C11_HandleDocumentOrder ==
    \A p \in Procs :
        LET id == arg[p].update.file_id
            ev == local[p].events
            getFile == [kind |-> "http", verb |-> "POST",
                        url |-> <<"https://api.telegram.org/bot", Token, "/", "getFile">>,
                        form |-> [file_id |-> id]]
            download == [kind |-> "http", verb |-> "GET",
                         url |-> <<"https://api.telegram.org/file/bot", Token, "/", "x.txt">>,
                         form |-> <<>>]
        IN
        /\ (pc[p] = "hd_return" /\ id = "") =>
                /\ local[p].val = 0
                /\ local[p].err = [type |-> "*errors.errorString",
                                   msg |-> <<"no document file ID found">>]
                /\ ev = <<>>
        /\ pc[p] = "hd_getfile" => (id # "" /\ ev = <<>>)
        /\ pc[p] = "hd_count" => (ev = <<getFile>> /\ local[p].fileURL = download.url)
        /\ (pc[p] = "hd_return" /\ id # "") =>
                \/ /\ ev = <<getFile>>
                   /\ local[p].val = 0
                   /\ local[p].err \in GetFileErrors
                \/ ev = <<getFile, download>>

\* A HandleDocument for file id "F" whose getFile was answered with an
\* envelope that is not ok is returning that error after its one request.
C11_Witness ==
    \E p \in Procs :
        /\ pc[p] = "hd_return"
        /\ arg[p].update.file_id = "F"
        /\ Len(local[p].events) = 1
        /\ local[p].events[1].verb = "POST"
        /\ local[p].val = 0
        /\ local[p].err.msg = <<"failed to get file URL">>

\* ===================================================================
\* Properties of the API operations (SpecApi)
\* ===================================================================

Is2xx(status) == status >= 200 /\ status <= 299

EnvelopeOps == {"SendMessage", "GetUpdates", "GetFileURL", "SendFile"}

\* The call kept in api got an HTTP response (its request was issued and the
\* transport did not fail).
Answered == api.op # "none" /\ api.sent /\ ~api.resp.net

\* C6 as stated: a response whose status is not 2xx makes the operation
\* return an error, whatever the body holds.
C6_Non2xxIsError ==
    (Answered /\ ~Is2xx(api.resp.status)) => api.err # Nil

\* C7 as stated: an envelope-returning operation answered with HTTP 200 and
\* an envelope whose ok is false returns an error, and reports success only
\* for an envelope that is ok.
C7_NotOkIsError ==
    (Answered /\ api.op \in EnvelopeOps /\ api.resp.status = 200) =>
        /\ (api.resp.json /\ ~api.resp.ok) => api.err # Nil
        /\ api.err = Nil => (api.resp.json /\ api.resp.ok)

\* The first failure condition of a response, in the order network error,
\* HTTP non-2xx, JSON decode failure, envelope ok = false.
FirstFailure(resp) ==
    IF resp.net THEN "transport"
    ELSE IF ~Is2xx(resp.status) THEN "http-status"
    ELSE IF ~resp.json THEN "decode"
    ELSE IF ~resp.ok THEN "api-not-ok"
    ELSE "none"

IsTransportError(e) ==
    e.type = "*url.Error" \/ e.msg[1] = "could not send request: "

\* C8 as stated: the error an API call returns is that of the first failure
\* condition of its response; a non-2xx response with an undecodable body
\* gives an HTTP-status error, never a decode error.
C8_DetectionOrder ==
    (api.op \in EnvelopeOps /\ api.sent) =>
        LET first == FirstFailure(api.resp) IN
        /\ first = "none" => api.err = Nil
        /\ first = "transport" => IsTransportError(api.err)
        /\ first = "http-status" =>
            (api.err # Nil /\ api.err # ErrDecode /\ ~IsTransportError(api.err))
        /\ first = "decode" => api.err = ErrDecode
        /\ first = "api-not-ok" =>
            (api.err # Nil /\ api.err # ErrDecode /\ ~IsTransportError(api.err))

\* The error kind of the failure of the call a, from what made it fail.
FailureKind(a) ==
    IF a.op = "SendFile" /\ ~a.sent THEN "io-local"
    ELSE IF a.op = "CountLinesInFile"
    THEN (IF a.resp.net THEN "transport"
          ELSE IF ~Is2xx(a.resp.status) THEN "download-failed"
          ELSE "transport")
    ELSE FirstFailure(a.resp)

\* The response of the call a has status 200 or a status that is not 2xx
\* (or none): its failure kind does not depend on how 201..299 are read.
PlainStatus(a) ==
    a.resp.net \/ a.resp.status = 200 \/ ~Is2xx(a.resp.status)

\* C9 as stated: two failures of the same operation that belong to different
\* error kinds return different error values, in particular GetFileURL's
\* error for a non-2xx status and its error for an envelope that is not ok
\* (here: two consecutive calls of the operation).
C9_KindsDistinguishable ==
    [][(/\ api.op # "none"
        /\ api'.op = api.op
        /\ api.err # Nil
        /\ api'.err # Nil
        /\ PlainStatus(api)
        /\ PlainStatus(api')
        /\ FailureKind(api) # FailureKind(api'))
       => api'.err # api.err]_vars

\* C10 as stated: GetFileURL returns the download URL and no error exactly
\* for a 2xx response with an ok envelope, else an error and "".
C10_Original ==
    api.op = "GetFileURL" =>
        IF ~api.resp.net /\ Is2xx(api.resp.status) /\ api.resp.json /\ api.resp.ok
        THEN /\ api.err = Nil
             /\ api.val = <<"https://api.telegram.org/file/bot", Token, "/",
                            api.resp.result>>
        ELSE api.err # Nil /\ api.val = <<>>

\* C10 amended: GetFileURL returns the download URL and no error exactly for
\* a response with status 200 and an ok envelope, else an error and "".
C10_Amended ==
    api.op = "GetFileURL" =>
        IF ~api.resp.net /\ api.resp.status = 200 /\ api.resp.json /\ api.resp.ok
        THEN /\ api.err = Nil
             /\ api.val = <<"https://api.telegram.org/file/bot", Token, "/",
                            api.resp.result>>
        ELSE api.err # Nil /\ api.val = <<>>

\* GetFileURL has returned the URL of x.txt.
C10_Witness ==
    /\ api.op = "GetFileURL"
    /\ api.err = Nil
    /\ api.val = <<"https://api.telegram.org/file/bot", "TOKEN", "/", "x.txt">>

\* ===================================================================
\* Properties of the line counter (SpecLines)
\* ===================================================================

CountLF(s) == Cardinality({i \in 1..Len(s) : s[i] = "LF"})

\* lines(s) of the specification.
Lines(s) == CountLF(s) + (IF s # <<>> /\ s[Len(s)] # "LF" THEN 1 ELSE 0)

\* C12 as stated, for the 2xx status 200: for a body that is delivered in
\* full, CountLinesInFile returns no error and the number of LF bytes of the
\* body, plus 1 when the body is non-empty and does not end in LF, whatever
\* the lengths of its lines relative to the reader's buffer.
C12_LineCount ==
    (api.op = "CountLinesInFile" /\ api.resp.status = 200 /\ api.resp.end = "EOF") =>
        (api.err = Nil /\ api.val = Lines(api.resp.bytes))

\* ===================================================================
\* Properties of the host poll loop (SpecPoll)
\* ===================================================================

\* The largest update_id of a non-empty batch.
LargestID(batch) ==
    CHOOSE id \in {batch[k].update_id : k \in 1..Len(batch)} :
        \A k \in 1..Len(batch) : batch[k].update_id <= id

\* C13: no step of the poll loop decreases the cursor (a poll that fails or
\* gives an empty batch leaves it as it is), and when the loop has processed
\* the non-empty result array of a poll the cursor is the largest update_id
\* of that array plus 1.
C13_CursorAdvances ==
    [][/\ host'.cursor >= host.cursor
       /\ (host.pc = "iter" /\ host'.pc = "poll" /\ host.wire = <<>>) =>
            host'.cursor = host.cursor
       /\ (host'.pc = "poll" /\ host'.wire # <<>>) =>
            host'.cursor = LargestID(host'.wire) + 1]_vars

\* The loop is about to poll again with cursor 12 after it has processed
\* the batch [10, 11] it got for offset 0.
C13_Witness ==
    /\ host.pc = "poll"
    /\ host.cursor = 12
    /\ Len(host.wire) = 2
    /\ host.wire[1].update_id = 10
    /\ host.wire[2].update_id = 11
    /\ host.handled = {10, 11}

\* C14: with a platform that answers getUpdates(offset) with updates of
\* update_id >= offset only, every update the loop passes to HandleUpdate
\* has an update_id that is not below the cursor and for which no earlier
\* HandleUpdate call has returned.
C14_NoStaleDispatch ==
    host.pc = "dispatching" =>
        LET u == host.batch[host.i] IN
        /\ u.update_id >= host.cursor
        /\ pc[PollThread] # "idle" =>
            (arg[PollThread].update = u /\ u.update_id \notin host.handled)

\* Update 11, the only update of its batch, is being dispatched after
\* update 10 of an earlier poll was handled.
C14_Witness ==
    /\ host.pc = "dispatching"
    /\ pc[PollThread] = "hu_send"
    /\ arg[PollThread].update.update_id = 11
    /\ host.handled = {10}
    /\ Len(host.batch) = 1

\* ===================================================================
\* Properties of the command table (SpecTable)
\* ===================================================================

\* C16: the write of AddCommand(t, h) makes h the handler of t, adds no
\* other text and leaves the handler of every other text as it was; the
\* lookup of a HandleUpdate for text t finds a handler exactly when some
\* AddCommand has written that very text (a text that differs in case is
\* another text), and the handler it then invokes is the one of the most
\* recent AddCommand(t, _), not one an earlier AddCommand gave.
C16_LastRegistrationWins ==
    [][\A p \in Procs :
        LET t == arg[p].update.text IN
        /\ (pc[p] = "ac_write" /\ pc'[p] = "ac_unlock") =>
            /\ DOMAIN commands' = DOMAIN commands \cup {arg[p].command}
            /\ commands'[arg[p].command] = arg[p].handler
            /\ \A other \in DOMAIN commands \ {arg[p].command} :
                    commands'[other] = commands[other]
        /\ (pc[p] = "hu_lookup" /\ pc'[p] # "hu_lookup") =>
            /\ local'[p].exists <=> (t \in DOMAIN registered)
            /\ pc'[p] = (IF t \in DOMAIN registered THEN "hu_handler" ELSE "hu_unlock")
        /\ (pc[p] = "hu_handler" /\ pc'[p] = "hu_send") =>
            local'[p].events = <<[kind |-> "handler", handler |-> registered[t],
                                  chat |-> arg[p].update.chat]>>]_vars

\* With "/ping" registered for hPong and "/PING" for hEmpty, a HandleUpdate
\* for "/ping" has invoked hPong.
C16_Witness ==
    /\ pc[PollThread] = "hu_send"
    /\ arg[PollThread].update.text = "/ping"
    /\ local[PollThread].handler = "hPong"
    /\ local[PollThread].response = "pong"
    /\ DOMAIN commands = {"/ping", "/PING"}
    /\ commands["/PING"] = "hEmpty"

\* ===================================================================
\* Properties of requests and deadlines (SpecDeadline)
\* ===================================================================

\* C18 as stated: every request the package has in flight, the download GET
\* of CountLinesInFile included, was issued through the Bot's client and is
\* under that client's deadline, so that the wait for a remote side that
\* never answers ends with a transport error.
C18_EveryRequestHasDeadline ==
    api.phase = "waiting" =>
        (api.client = "b.Client" /\ ClientTimeout(api.client) > 0)

\* ===================================================================
\* Properties of SendFile (SpecApi)
\* ===================================================================

\* The call kept in api is a SendFile whose os.Open failed.
OpenFailed ==
    /\ api.op = "SendFile"
    /\ Len(api.err.msg) > 0
    /\ api.err.msg[1] = "could not open file: "

\* C19: when SendFile returns, no file handle is left open: if the open
\* failed there is no handle, the error is the io-local one and no request
\* was issued; if it succeeded the handle has been closed, whether SendFile
\* returns nil or the error of the multipart build, of the request or of a
\* non-200 status.
C19_HandleReleased ==
    api.op = "SendFile" =>
        /\ api.handle # "open"
        /\ IF OpenFailed
           THEN api.handle = "none" /\ ~api.sent
           ELSE api.handle = "closed"
        /\ ~api.sent => api.err # Nil

\* SendFile has returned the error of a 500 response with its file closed.
C19_Witness ==
    /\ api.op = "SendFile"
    /\ api.sent
    /\ api.resp.status = 500
    /\ api.err.msg = <<"failed to send file: ", "500 Internal Server Error">>
    /\ api.handle = "closed"

\* ===================================================================
\* Properties under fair scheduling (SpecFair)
\* ===================================================================

\* C20: every call of AddCommand and HandleUpdate that a thread has entered
\* eventually returns, and whenever no call is in progress the exclusion is
\* free (HandleUpdate has released it on its way out, whether a command
\* matched or not and whatever the send gave).
C20_CallsReturn ==
    /\ []((\A p \in Procs : pc[p] = "idle") => mu = FALSE)
    /\ \A p \in Procs : (pc[p] # "idle") ~> (pc[p] = "idle")

\* An AddCommand waits for the exclusion that a HandleUpdate without a
\* matching command holds and is about to release.
C20_Witness ==
    \E p \in Procs, q \in Procs :
        /\ pc[p] = "ac_lock"
        /\ pc[q] = "hu_unlock"
        /\ ~local[q].exists
        /\ mu = TRUE

\* ===================================================================
\* Properties of handlers that call the Bot (SpecReentrant)
\* ===================================================================

\* Thread p is in the Lock of a call its handler made: it waits for the
\* mutex while the locals of its own dispatch are live.
Nested(p) == pc[p] \in {"ac_lock", "hu_lock"} /\ local[p].exists

\* C21: a thread whose handler has called AddCommand or HandleUpdate on the
\* Bot that is running it waits in Lock for the exclusion its own dispatch
\* holds; from then on the exclusion stays held, that thread never leaves
\* the Lock (its HandleUpdate does not return), the table is not written,
\* and every other thread that is waiting in the Lock of an AddCommand or a
\* HandleUpdate stays there too.
C21_ReentrantCallBlocks ==
    [][\A p \in Procs : Nested(p) =>
        /\ mu = TRUE
        /\ mu' = TRUE
        /\ pc'[p] = pc[p]
        /\ local'[p] = local[p]
        /\ commands' = commands
        /\ \A q \in Procs :
                pc[q] \in {"ac_lock", "hu_lock"} => pc'[q] = pc[q]
        /\ \A q \in Procs : pc'[q] \notin {"ac_write", "hu_lookup"}]_vars

\* The deadlock: a thread waits in the AddCommand its handler hReAdd called
\* and every other thread waits in the Lock of a later call.
C21_Witness ==
    \E p \in Procs :
        /\ Nested(p)
        /\ pc[p] = "ac_lock"
        /\ local[p].handler = "hReAdd"
        /\ arg[p].command = "/other"
        /\ mu = TRUE
        /\ \A q \in Procs \ {p} :
                pc[q] \in {"ac_lock", "hu_lock"} /\ ~local[q].exists

====
